---- MODULE Spec2Model ----
(***************************************************************************)
(* RentFlow Core (programs/rentflow-core/src/lib.rs): the on-chain lease   *)
(* record and its four instructions initialize_lease, sign_lease,          *)
(* update_lease_status and verify_lease.                                   *)
(*                                                                         *)
(* Every instruction is one atomic transaction: it either commits the      *)
(* account as the handler left it, or fails with an error and commits      *)
(* nothing.  The handlers are modelled as pure operators from the account  *)
(* and the instruction's inputs to an outcome [err, lease, ret]; an action *)
(* applies one handler and commits its outcome.                            *)
(***************************************************************************)
EXTENDS Integers, Sequences, FiniteSets, TLC

VARIABLES
    accounts,   \* PDA -> Lease account data, or NoAccount while not created
    clock,      \* Clock::get()?.unix_timestamp
    result      \* the last transaction: instruction, signer, argument, outcome

vars == <<accounts, clock, result>>

----------------------------------------------------------------------------
(* Bounds of the model *)

\* unix_timestamp ranges over 0..MaxTime
MaxTime == 3
\* signature_hash ranges over 0..MaxHash; 0 stands for the array [0; 32]
MaxHash == 1

(* Program constants *)

\* require!(lease_id.len() <= 64, ...)
MaxLeaseIdLen == 64
\* [0; 32]
ZeroHash == 0

----------------------------------------------------------------------------
(* Input domains *)

Identities == {"alice", "bob", "carol"}

\* the tenant_wallet argument of initialize_lease.  Every identity may call
\* every instruction; up to a renaming of the identities each pair
\* (manager, tenant), equal or distinct, with an outsider left over, occurs.
TenantWallets == {"alice", "bob"}

Times == 0..MaxTime

Hashes == ZeroHash..MaxHash

\* a lease_id of exactly 64 bytes and one of 65 bytes
LeaseId64 == "L000000000000000000000000000000000000000000000000000000000000064"
LeaseId65 == "L0000000000000000000000000000000000000000000000000000000000000065"
LeaseIds == {LeaseId64, LeaseId65}

LeaseHashes == {7}
Rents == {0, 1000}
Deposits == {500}
\* end_date before, at and after start_date; with the clock in 0..MaxTime a
\* transaction can run before start_date, between the dates, at end_date and
\* after it
StartDates == {1}
EndDates == {0, 1, 2}

\* enum LeaseStatus
Pending == "Pending"
Active == "Active"
Terminated == "Terminated"
Completed == "Completed"
LeaseStatus == {Pending, Active, Terminated, Completed}

\* enum LeaseError, and the outcomes that are not a LeaseError
Ok == "Ok"
LeaseIdTooLong == "LeaseIdTooLong"
InvalidRentAmount == "InvalidRentAmount"
InvalidDateRange == "InvalidDateRange"
UnauthorizedSigner == "UnauthorizedSigner"
LeaseNotPending == "LeaseNotPending"
AlreadySigned == "AlreadySigned"
LeaseNotEnded == "LeaseNotEnded"
InvalidStatusTransition == "InvalidStatusTransition"
\* the `init` constraint: the system program refuses to create an account
\* at an address that is already in use
AccountAlreadyInUse == "AccountAlreadyInUse"

\* an address nobody created an account at: no lamports, no data
NoAccount == [lamports |-> 0]
NoAddress == <<>>
NoSigner == "NoSigner"
\* the argument and the return value of a transaction are kept apart by
\* instruction: no argument, [signature_hash |-> h] or [new_status |-> s];
\* <<>> for Ok(()) and <<b>> for Ok(b)
NoArg == [none |-> TRUE]
NoRet == <<>>

\* seeds = [b"lease", lease_id.as_bytes()]
PDA(lease_id) == <<"lease", lease_id>>
Addresses == {PDA(id) : id \in LeaseIds}

\* ctx.bumps.lease: the canonical bump of the PDA.  The address derivation
\* decides which u8 it is; the program only stores it.
BumpOf(lease_id) == CHOOSE b \in 0..255 : TRUE

Outcome(e, l, r) == [err |-> e, lease |-> l, ret |-> r]

----------------------------------------------------------------------------
(* initialize_lease *)

\* the sixteen field assignments of initialize_lease
NewLease(manager, lease_id, lease_hash, tenant_wallet, monthly_rent, security_deposit, start_date, end_date, now) ==
    [lease_id |-> lease_id,
     lease_hash |-> lease_hash,
     manager_wallet |-> manager,
     tenant_wallet |-> tenant_wallet,
     monthly_rent |-> monthly_rent,
     security_deposit |-> security_deposit,
     start_date |-> start_date,
     end_date |-> end_date,
     manager_signed |-> FALSE,
     tenant_signed |-> FALSE,
     manager_signature |-> ZeroHash,
     tenant_signature |-> ZeroHash,
     status |-> Pending,
     created_at |-> now,
     activated_at |-> 0,
     bump |-> BumpOf(lease_id)]

\* slips of initialize_lease: the rent is checked before the lease_id; the
\* account constraint is init_if_needed, so an existing account is rewritten
initialize_lease_RentFirst(existing, manager, lease_id, lease_hash, tenant_wallet, monthly_rent, security_deposit, start_date, end_date, now) ==
    IF existing # NoAccount THEN Outcome(AccountAlreadyInUse, existing, NoRet)
    ELSE IF ~(monthly_rent > 0)
        THEN Outcome(InvalidRentAmount, existing, NoRet)
    ELSE IF ~(Len(lease_id) <= MaxLeaseIdLen)
        THEN Outcome(LeaseIdTooLong, existing, NoRet)
    ELSE IF ~(end_date > start_date)
        THEN Outcome(InvalidDateRange, existing, NoRet)
    ELSE Outcome(Ok, NewLease(manager, lease_id, lease_hash, tenant_wallet, monthly_rent, security_deposit, start_date, end_date, now), NoRet)

initialize_lease_IfNeeded(existing, manager, lease_id, lease_hash, tenant_wallet, monthly_rent, security_deposit, start_date, end_date, now) ==
    IF ~(Len(lease_id) <= MaxLeaseIdLen)
        THEN Outcome(LeaseIdTooLong, existing, NoRet)
    ELSE IF ~(monthly_rent > 0)
        THEN Outcome(InvalidRentAmount, existing, NoRet)
    ELSE IF ~(end_date > start_date)
        THEN Outcome(InvalidDateRange, existing, NoRet)
    ELSE Outcome(Ok, NewLease(manager, lease_id, lease_hash, tenant_wallet, monthly_rent, security_deposit, start_date, end_date, now), NoRet)

\* the `init` constraint of InitializeLease runs before the handler body
initialize_lease(existing, manager, lease_id, lease_hash, tenant_wallet, monthly_rent, security_deposit, start_date, end_date, now) ==
    IF existing # NoAccount THEN Outcome(AccountAlreadyInUse, existing, NoRet)
    ELSE IF ~(Len(lease_id) <= MaxLeaseIdLen)
        THEN Outcome(LeaseIdTooLong, existing, NoRet)
    ELSE IF ~(monthly_rent > 0)
        THEN Outcome(InvalidRentAmount, existing, NoRet)
    ELSE IF ~(end_date > start_date)
        THEN Outcome(InvalidDateRange, existing, NoRet)
    ELSE Outcome(Ok, NewLease(manager, lease_id, lease_hash, tenant_wallet, monthly_rent, security_deposit, start_date, end_date, now), NoRet)

----------------------------------------------------------------------------
(* sign_lease *)

\* the two updates of the manager branch / the tenant branch
SignAsManager(lease, signature_hash) ==
    [lease EXCEPT !.manager_signed = TRUE,
                  !.manager_signature = signature_hash]

SignAsTenant(lease, signature_hash) ==
    [lease EXCEPT !.tenant_signed = TRUE,
                  !.tenant_signature = signature_hash]

\* slips of the auto-activation: activating on one signature, activating
\* without the timestamp, writing the timestamp outside the `if`
AutoActivate_Either(lease, now) ==
    IF lease.manager_signed \/ lease.tenant_signed
    THEN [lease EXCEPT !.status = Active, !.activated_at = now]
    ELSE lease

AutoActivate_NoStamp(lease, now) ==
    IF lease.manager_signed /\ lease.tenant_signed
    THEN [lease EXCEPT !.status = Active]
    ELSE lease

AutoActivate_StampAlways(lease, now) ==
    IF lease.manager_signed /\ lease.tenant_signed
    THEN [lease EXCEPT !.status = Active, !.activated_at = now]
    ELSE [lease EXCEPT !.activated_at = now]

\* slip of the auto-activation: the timestamp goes to created_at
AutoActivate_StampCreated(lease, now) ==
    IF lease.manager_signed /\ lease.tenant_signed
    THEN [lease EXCEPT !.status = Active, !.created_at = now]
    ELSE lease

\* "Auto-activate if both parties have signed"
AutoActivate(lease, now) ==
    IF lease.manager_signed /\ lease.tenant_signed
    THEN [lease EXCEPT !.status = Active, !.activated_at = now]
    ELSE lease

\* slips of sign_lease: every signer that is not the manager signs as the
\* tenant; the manager's AlreadySigned check is missing
sign_lease_ElseTenant(lease, signer, signature_hash, now) ==
    IF lease.status # Pending THEN Outcome(LeaseNotPending, lease, NoRet)
    ELSE IF signer = lease.manager_wallet THEN
        IF lease.manager_signed THEN Outcome(AlreadySigned, lease, NoRet)
        ELSE Outcome(Ok, AutoActivate(SignAsManager(lease, signature_hash), now),
                     NoRet)
    ELSE
        IF lease.tenant_signed THEN Outcome(AlreadySigned, lease, NoRet)
        ELSE Outcome(Ok, AutoActivate(SignAsTenant(lease, signature_hash), now),
                     NoRet)

sign_lease_NoAlreadySigned(lease, signer, signature_hash, now) ==
    IF lease.status # Pending THEN Outcome(LeaseNotPending, lease, NoRet)
    ELSE IF signer = lease.manager_wallet THEN
        Outcome(Ok, AutoActivate(SignAsManager(lease, signature_hash), now), NoRet)
    ELSE IF signer = lease.tenant_wallet THEN
        IF lease.tenant_signed THEN Outcome(AlreadySigned, lease, NoRet)
        ELSE Outcome(Ok, AutoActivate(SignAsTenant(lease, signature_hash), now),
                     NoRet)
    ELSE Outcome(UnauthorizedSigner, lease, NoRet)

\* slip of sign_lease: the tenant's AlreadySigned check is missing
sign_lease_TenantResigns(lease, signer, signature_hash, now) ==
    IF lease.status # Pending THEN Outcome(LeaseNotPending, lease, NoRet)
    ELSE IF signer = lease.manager_wallet THEN
        IF lease.manager_signed THEN Outcome(AlreadySigned, lease, NoRet)
        ELSE Outcome(Ok, AutoActivate(SignAsManager(lease, signature_hash), now),
                     NoRet)
    ELSE IF signer = lease.tenant_wallet THEN
        Outcome(Ok, AutoActivate(SignAsTenant(lease, signature_hash), now), NoRet)
    ELSE Outcome(UnauthorizedSigner, lease, NoRet)

\* slip of sign_lease: the tenant branch tests the manager's flag
sign_lease_TenantTestsManager(lease, signer, signature_hash, now) ==
    IF lease.status # Pending THEN Outcome(LeaseNotPending, lease, NoRet)
    ELSE IF signer = lease.manager_wallet THEN
        IF lease.manager_signed THEN Outcome(AlreadySigned, lease, NoRet)
        ELSE Outcome(Ok, AutoActivate(SignAsManager(lease, signature_hash), now),
                     NoRet)
    ELSE IF signer = lease.tenant_wallet THEN
        IF lease.manager_signed THEN Outcome(AlreadySigned, lease, NoRet)
        ELSE Outcome(Ok, AutoActivate(SignAsTenant(lease, signature_hash), now),
                     NoRet)
    ELSE Outcome(UnauthorizedSigner, lease, NoRet)

sign_lease(lease, signer, signature_hash, now) ==
    IF lease.status # Pending THEN Outcome(LeaseNotPending, lease, NoRet)
    ELSE IF signer = lease.manager_wallet THEN
        IF lease.manager_signed THEN Outcome(AlreadySigned, lease, NoRet)
        ELSE Outcome(Ok, AutoActivate(SignAsManager(lease, signature_hash), now),
                     NoRet)
    ELSE IF signer = lease.tenant_wallet THEN
        IF lease.tenant_signed THEN Outcome(AlreadySigned, lease, NoRet)
        ELSE Outcome(Ok, AutoActivate(SignAsTenant(lease, signature_hash), now),
                     NoRet)
    ELSE Outcome(UnauthorizedSigner, lease, NoRet)

----------------------------------------------------------------------------
(* update_lease_status *)

\* slips of update_lease_status: the match lacks its catch-all arm, so every
\* pair is let through; the end date is compared with > instead of >=
update_lease_status_AnyPair(lease, signer, new_status, now) ==
    IF ~(signer = lease.manager_wallet \/ signer = lease.tenant_wallet)
        THEN Outcome(UnauthorizedSigner, lease, NoRet)
    ELSE IF lease.status = Active /\ new_status = Completed
                /\ ~(now >= lease.end_date)
        THEN Outcome(LeaseNotEnded, lease, NoRet)
    ELSE Outcome(Ok, [lease EXCEPT !.status = new_status], NoRet)

update_lease_status_StrictlyAfter(lease, signer, new_status, now) ==
    IF ~(signer = lease.manager_wallet \/ signer = lease.tenant_wallet)
        THEN Outcome(UnauthorizedSigner, lease, NoRet)
    ELSE IF lease.status = Active /\ new_status = Terminated
        THEN Outcome(Ok, [lease EXCEPT !.status = new_status], NoRet)
    ELSE IF lease.status = Active /\ new_status = Completed
        THEN IF ~(now > lease.end_date)
             THEN Outcome(LeaseNotEnded, lease, NoRet)
             ELSE Outcome(Ok, [lease EXCEPT !.status = new_status], NoRet)
    ELSE Outcome(InvalidStatusTransition, lease, NoRet)

\* slips of update_lease_status: a Pending lease can be terminated too; a
\* termination also clears the activation timestamp
update_lease_status_PendingTerminate(lease, signer, new_status, now) ==
    IF ~(signer = lease.manager_wallet \/ signer = lease.tenant_wallet)
        THEN Outcome(UnauthorizedSigner, lease, NoRet)
    ELSE IF lease.status \in {Pending, Active} /\ new_status = Terminated
        THEN Outcome(Ok, [lease EXCEPT !.status = new_status], NoRet)
    ELSE IF lease.status = Active /\ new_status = Completed
        THEN IF ~(now >= lease.end_date)
             THEN Outcome(LeaseNotEnded, lease, NoRet)
             ELSE Outcome(Ok, [lease EXCEPT !.status = new_status], NoRet)
    ELSE Outcome(InvalidStatusTransition, lease, NoRet)

update_lease_status_ClearsActivation(lease, signer, new_status, now) ==
    IF ~(signer = lease.manager_wallet \/ signer = lease.tenant_wallet)
        THEN Outcome(UnauthorizedSigner, lease, NoRet)
    ELSE IF lease.status = Active /\ new_status = Terminated
        THEN Outcome(Ok, [lease EXCEPT !.status = new_status, !.activated_at = 0], NoRet)
    ELSE IF lease.status = Active /\ new_status = Completed
        THEN IF ~(now >= lease.end_date)
             THEN Outcome(LeaseNotEnded, lease, NoRet)
             ELSE Outcome(Ok, [lease EXCEPT !.status = new_status], NoRet)
    ELSE Outcome(InvalidStatusTransition, lease, NoRet)

\* slips of update_lease_status: the transition table is consulted before
\* the signer; the end-date requirement of Completed is missing
update_lease_status_TableFirst(lease, signer, new_status, now) ==
    IF ~(lease.status = Active /\ new_status \in {Terminated, Completed})
        THEN Outcome(InvalidStatusTransition, lease, NoRet)
    ELSE IF new_status = Completed /\ ~(now >= lease.end_date)
        THEN Outcome(LeaseNotEnded, lease, NoRet)
    ELSE IF ~(signer = lease.manager_wallet \/ signer = lease.tenant_wallet)
        THEN Outcome(UnauthorizedSigner, lease, NoRet)
    ELSE Outcome(Ok, [lease EXCEPT !.status = new_status], NoRet)

update_lease_status_NoEndCheck(lease, signer, new_status, now) ==
    IF ~(signer = lease.manager_wallet \/ signer = lease.tenant_wallet)
        THEN Outcome(UnauthorizedSigner, lease, NoRet)
    ELSE IF lease.status = Active /\ new_status \in {Terminated, Completed}
        THEN Outcome(Ok, [lease EXCEPT !.status = new_status], NoRet)
    ELSE Outcome(InvalidStatusTransition, lease, NoRet)

update_lease_status(lease, signer, new_status, now) ==
    IF ~(signer = lease.manager_wallet \/ signer = lease.tenant_wallet)
        THEN Outcome(UnauthorizedSigner, lease, NoRet)
    ELSE IF lease.status = Active /\ new_status = Terminated
        THEN Outcome(Ok, [lease EXCEPT !.status = new_status], NoRet)
    ELSE IF lease.status = Active /\ new_status = Completed
        THEN IF ~(now >= lease.end_date)
             THEN Outcome(LeaseNotEnded, lease, NoRet)
             ELSE Outcome(Ok, [lease EXCEPT !.status = new_status], NoRet)
    ELSE Outcome(InvalidStatusTransition, lease, NoRet)

----------------------------------------------------------------------------
(* verify_lease *)

\* slip of verify_lease: the status is not looked at
verify_lease_FlagsOnly(lease) ==
    Outcome(Ok, lease, <<lease.manager_signed /\ lease.tenant_signed>>)

verify_lease(lease) ==
    Outcome(Ok, lease,
            <<lease.manager_signed /\ lease.tenant_signed /\ lease.status = Active>>)

----------------------------------------------------------------------------
(* Transactions *)

\* a transaction commits the account the handler returned when the handler
\* returned Ok(..), and nothing when it returned Err(..)
Commit(address, out) ==
    accounts' = [accounts EXCEPT
                    ![address] = IF out.err = Ok THEN out.lease ELSE @]

Report(op, address, signer, arg, out) ==
    result' = [op |-> op, address |-> address, signer |-> signer, arg |-> arg,
               err |-> out.err, ret |-> out.ret]

Init ==
    /\ accounts = [a \in Addresses |-> NoAccount]
    /\ clock = 0
    /\ result = [op |-> "none", address |-> NoAddress, signer |-> NoSigner,
                 arg |-> NoArg, err |-> Ok, ret |-> NoRet]

Initialize ==
    \E manager \in Identities, lease_id \in LeaseIds, lease_hash \in LeaseHashes,
       tenant_wallet \in TenantWallets, monthly_rent \in Rents,
       security_deposit \in Deposits, start_date \in StartDates, end_date \in EndDates :
        LET out == initialize_lease(accounts[PDA(lease_id)], manager, lease_id,
                                    lease_hash, tenant_wallet, monthly_rent,
                                    security_deposit, start_date, end_date, clock)
        IN /\ Commit(PDA(lease_id), out)
           /\ Report("initialize_lease", PDA(lease_id), manager, NoArg, out)
           /\ UNCHANGED clock

\* a sign_lease transaction on the account at a, signed by signer
SignBy(a, signer) ==
    \E signature_hash \in Hashes :
        /\ accounts[a] # NoAccount
        /\ LET out == sign_lease(accounts[a], signer, signature_hash, clock)
           IN /\ Commit(a, out)
              /\ Report("sign_lease", a, signer, [signature_hash |-> signature_hash], out)
        /\ UNCHANGED clock

Sign == \E a \in Addresses, signer \in Identities : SignBy(a, signer)

UpdateStatus ==
    \E a \in Addresses, signer \in Identities, new_status \in LeaseStatus :
        /\ accounts[a] # NoAccount
        /\ LET out == update_lease_status(accounts[a], signer, new_status, clock)
           IN /\ Commit(a, out)
              /\ Report("update_lease_status", a, signer, [new_status |-> new_status], out)
        /\ UNCHANGED clock

Verify ==
    \E a \in Addresses :
        /\ accounts[a] # NoAccount
        /\ LET out == verify_lease(accounts[a])
           IN /\ Commit(a, out)
              /\ Report("verify_lease", a, NoSigner, NoArg, out)
        /\ UNCHANGED clock

\* the cluster's clock advances between transactions
Tick ==
    /\ clock < MaxTime
    /\ clock' = clock + 1
    /\ UNCHANGED <<accounts, result>>

Next == Initialize \/ Sign \/ UpdateStatus \/ Verify \/ Tick

Spec == Init /\ [][Next]_vars

\* the record's manager, and its tenant, keep sending sign_lease
ManagerSigns(a) ==
    /\ accounts[a] # NoAccount
    /\ SignBy(a, accounts[a].manager_wallet)

TenantSigns(a) ==
    /\ accounts[a] # NoAccount
    /\ SignBy(a, accounts[a].tenant_wallet)

FairSpec ==
    /\ Spec
    /\ \A a \in Addresses : WF_vars(ManagerSigns(a)) /\ WF_vars(TenantSigns(a))

----------------------------------------------------------------------------
(* Properties *)

Exists(a) == accounts[a] # NoAccount
Created == {a \in Addresses : Exists(a)}

IsParty(lease, who) == who = lease.manager_wallet \/ who = lease.tenant_wallet

\* the last transaction was instruction op on the account at a
Ran(op, a) == result.op = op /\ result.address = a
\* this step is a transaction (the clock stands still while one executes)
\* running instruction op on the account at a
Runs(op, a) == clock' = clock /\ result'.op = op /\ result'.address = a

\* C1: in every reachable state a record whose status is Active has
\* manager_signed and tenant_signed both true.
C1_ActiveImpliesBothSigned ==
    \A a \in Created :
        accounts[a].status = Active
            => accounts[a].manager_signed /\ accounts[a].tenant_signed

C1_Witness ==
    \E a \in Created :
        /\ accounts[a].status = Active
        /\ Ran("sign_lease", a) /\ result.err = Ok

\* C2: the sign_lease transaction that makes both flags true also sets status
\* to Active and activated_at to the time of that transaction, and no state
\* between transactions has both flags true while the status is Pending.
C2_NoSignedPendingState ==
    \A a \in Created :
        ~(/\ accounts[a].manager_signed
          /\ accounts[a].tenant_signed
          /\ accounts[a].status = Pending)

C2_SecondSignatureActivates ==
    \A a \in Created :
        (/\ ~(accounts[a].manager_signed /\ accounts[a].tenant_signed)
         /\ accounts'[a].manager_signed /\ accounts'[a].tenant_signed)
        => /\ Runs("sign_lease", a)
           /\ result'.err = Ok
           /\ accounts'[a].status = Active
           /\ accounts'[a].activated_at = clock
           /\ clock' = clock

C2_AtomicActivation ==
    []C2_NoSignedPendingState /\ [][C2_SecondSignatureActivates]_vars

C2_Witness ==
    \E a \in Created :
        /\ Ran("sign_lease", a) /\ result.err = Ok
        /\ accounts[a].manager_signed /\ accounts[a].tenant_signed
        /\ accounts[a].status = Active
        /\ accounts[a].activated_at = clock
        /\ clock > 0

\* C3: after every completed operation each party's signature field is
\* non-zero if and only if that party's signed flag is true.
C3_SignatureNonZeroIffSigned ==
    \A a \in Created :
        /\ (accounts[a].manager_signature # ZeroHash) <=> accounts[a].manager_signed
        /\ (accounts[a].tenant_signature # ZeroHash) <=> accounts[a].tenant_signed

\* C4: a record whose status is Pending has activated_at = 0, so activated_at
\* stays zero until the record is activated.
C4_PendingNotActivated ==
    \A a \in Created :
        accounts[a].status = Pending => accounts[a].activated_at = 0

C4_Witness ==
    \E a \in Created :
        /\ accounts[a].status = Pending
        /\ Ran("sign_lease", a) /\ result.err = Ok
        /\ accounts[a].manager_signed # accounts[a].tenant_signed
        /\ clock > 0

\* C5: every record a successful initialize_lease creates has a
\* manager identity different from its tenant identity.
C5_PartiesDistinct ==
    \A a \in Created : accounts[a].manager_wallet # accounts[a].tenant_wallet

\* C6: on every record, a successful first Sign by one party directly followed
\* by a Sign by the other party's identity succeeds too and Verify is then
\* true; and the first Sign by a party on a new record succeeds.
C6_FirstSign ==
    \A a \in Created :
        (/\ Ran("initialize_lease", a) /\ result.err = Ok
         /\ Runs("sign_lease", a)
         /\ IsParty(accounts[a], result'.signer))
        => result'.err = Ok

C6_SecondSign ==
    \A a \in Created :
        (/\ Ran("sign_lease", a) /\ result.err = Ok
         /\ accounts[a].status = Pending
         /\ Runs("sign_lease", a)
         /\ \/ /\ result.signer = accounts[a].manager_wallet
               /\ result'.signer = accounts[a].tenant_wallet
            \/ /\ result.signer = accounts[a].tenant_wallet
               /\ result'.signer = accounts[a].manager_wallet)
        => /\ result'.err = Ok
           /\ verify_lease(accounts'[a]).ret = <<TRUE>>

C6_BothSignThenVerify == [][C6_FirstSign /\ C6_SecondSign]_vars

\* C7 as claimed: in every status a Sign by an identity that is neither the
\* manager nor the tenant fails with UnauthorizedSigner and changes no field.
C7_OutsiderUnauthorizedStep ==
    \A a \in Created :
        (Runs("sign_lease", a) /\ ~IsParty(accounts[a], result'.signer))
        => (result'.err = UnauthorizedSigner /\ accounts' = accounts)

C7_OutsiderAlwaysUnauthorized == [][C7_OutsiderUnauthorizedStep]_vars

\* C7 as amended: a Sign by an identity that is neither the manager nor the
\* tenant always fails and changes no field; the error is UnauthorizedSigner
\* on a Pending record and LeaseNotPending on an Active, Terminated or
\* Completed record.
C7_OutsiderRejectedStep ==
    \A a \in Created :
        (Runs("sign_lease", a) /\ ~IsParty(accounts[a], result'.signer))
        => /\ accounts' = accounts
           /\ result'.err = IF accounts[a].status = Pending
                            THEN UnauthorizedSigner ELSE LeaseNotPending

C7_OutsiderRejected == [][C7_OutsiderRejectedStep]_vars

C7_Witness ==
    \E a \in Created :
        /\ Ran("sign_lease", a)
        /\ ~IsParty(accounts[a], result.signer)
        /\ result.err = UnauthorizedSigner
        /\ accounts[a].status = Pending
        /\ accounts[a].manager_signed

\* C8: on a Pending record, a Sign by a party whose signed flag is already
\* true fails with AlreadySigned, whatever the signature_hash, and leaves the
\* record (the stored signature included) unchanged.
C8_SecondSignStep ==
    \A a \in Created :
        (/\ accounts[a].status = Pending
         /\ Runs("sign_lease", a)
         /\ \/ /\ accounts[a].manager_signed
               /\ result'.signer = accounts[a].manager_wallet
            \/ /\ accounts[a].tenant_signed
               /\ result'.signer = accounts[a].tenant_wallet)
        => (result'.err = AlreadySigned /\ accounts' = accounts)

C8_AlreadySigned == [][C8_SecondSignStep]_vars

C8_Witness ==
    \E a \in Created :
        /\ Ran("sign_lease", a) /\ result.err = AlreadySigned
        /\ accounts[a].status = Pending
        /\ accounts[a].manager_signed
        /\ result.signer = accounts[a].manager_wallet
        /\ result.arg.signature_hash # accounts[a].manager_signature

\* C9: a record is never removed, Terminated and Completed are never left,
\* Pending is never re-entered, and the only status changes are
\* Pending -> Active by sign_lease and Active -> Terminated,
\* Active -> Completed by update_lease_status.
C9_StatusStep ==
    \A a \in Created :
        /\ accounts'[a] # NoAccount
        /\ \/ accounts'[a].status = accounts[a].status
           \/ /\ accounts[a].status = Pending
              /\ accounts'[a].status = Active
              /\ Runs("sign_lease", a)
           \/ /\ accounts[a].status = Active
              /\ accounts'[a].status \in {Terminated, Completed}
              /\ Runs("update_lease_status", a)

C9_StatusTransitions == [][C9_StatusStep]_vars

C9_Witness ==
    \E a \in Created :
        /\ accounts[a].status \in {Terminated, Completed}
        /\ Ran("update_lease_status", a)
        /\ IsParty(accounts[a], result.signer)
        /\ result.arg.new_status = Active
        /\ result.err = InvalidStatusTransition

\* C10: on an Active record update_lease_status(Completed) by the manager or
\* the tenant fails with LeaseNotEnded and changes nothing while the time is
\* before end_date, and sets the status to Completed from end_date on.
C10_CompleteStep ==
    \A a \in Created :
        (/\ accounts[a].status = Active
         /\ Runs("update_lease_status", a)
         /\ result'.arg.new_status = Completed
         /\ IsParty(accounts[a], result'.signer))
        => IF clock < accounts[a].end_date
           THEN result'.err = LeaseNotEnded /\ accounts' = accounts
           ELSE result'.err = Ok /\ accounts'[a].status = Completed

C10_CompletedGate == [][C10_CompleteStep]_vars

C10_Witness ==
    \E a \in Created :
        /\ Ran("update_lease_status", a) /\ result.err = Ok
        /\ result.arg.new_status = Completed
        /\ accounts[a].status = Completed
        /\ clock = accounts[a].end_date

\* C11: update_lease_status by the manager or the tenant fails with
\* InvalidStatusTransition on a Pending record (every target, every time), on
\* a Terminated or Completed record (every target), and on an Active record
\* when the target is Pending or Active; the record is unchanged.
C11_RejectedStep ==
    \A a \in Created :
        (/\ Runs("update_lease_status", a)
         /\ IsParty(accounts[a], result'.signer)
         /\ \/ accounts[a].status \in {Pending, Terminated, Completed}
            \/ accounts[a].status = Active /\ result'.arg.new_status \in {Pending, Active})
        => (result'.err = InvalidStatusTransition /\ accounts' = accounts)

C11_InvalidTransitions == [][C11_RejectedStep]_vars

C11_Witness ==
    \E a \in Created :
        /\ Ran("update_lease_status", a)
        /\ IsParty(accounts[a], result.signer)
        /\ accounts[a].status = Pending
        /\ result.arg.new_status = Terminated
        /\ result.err = InvalidStatusTransition
        /\ clock > accounts[a].end_date

\* C12: a successful update_lease_status changes the status field and no
\* other field of the record; Active -> Terminated succeeds for the manager
\* and for the tenant at every time (before start_date, between the dates,
\* at and after end_date).
C12_FrameStep ==
    \A a \in Created :
        /\ (Runs("update_lease_status", a) /\ result'.err = Ok)
            => accounts' = [accounts EXCEPT ![a].status = result'.arg.new_status]
        /\ (/\ Runs("update_lease_status", a)
            /\ accounts[a].status = Active
            /\ result'.arg.new_status = Terminated
            /\ IsParty(accounts[a], result'.signer))
            => (result'.err = Ok /\ accounts'[a].status = Terminated)

C12_StatusOnly == [][C12_FrameStep]_vars

C12_Witness ==
    \E a \in Created :
        /\ Ran("update_lease_status", a) /\ result.err = Ok
        /\ result.arg.new_status = Terminated
        /\ result.signer = accounts[a].tenant_wallet
        /\ accounts[a].status = Terminated
        /\ clock < accounts[a].start_date
        /\ accounts[a].manager_signature # ZeroHash

\* the outcome of initialize_lease in the current state, for given inputs
InitializeOutcome(manager, lease_id, lease_hash, tenant_wallet, monthly_rent, security_deposit, start_date, end_date) ==
    initialize_lease(accounts[PDA(lease_id)], manager, lease_id, lease_hash, tenant_wallet, monthly_rent, security_deposit, start_date, end_date, clock)

InputErrors == {LeaseIdTooLong, InvalidRentAmount, InvalidDateRange}

\* C13: initialize_lease checks lease_id length <= 64, then monthly_rent > 0,
\* then end_date > start_date, and reports the first check that fails, also
\* when several fail; after any of these errors no record exists at the
\* derived address; when all pass and no record exists, the record is
\* created Pending, unsigned, with zero signatures, activated_at = 0,
\* created_at = the current time and manager_wallet = the caller.
C13_FirstFailureWins ==
    \A manager \in Identities, lease_id \in LeaseIds, lease_hash \in LeaseHashes,
       tenant_wallet \in TenantWallets, monthly_rent \in Rents,
       security_deposit \in Deposits, start_date \in StartDates, end_date \in EndDates :
        LET out == InitializeOutcome(manager, lease_id, lease_hash, tenant_wallet,
                        monthly_rent, security_deposit, start_date, end_date)
            first == IF Len(lease_id) > 64 THEN LeaseIdTooLong
                     ELSE IF monthly_rent <= 0 THEN InvalidRentAmount
                     ELSE IF end_date <= start_date THEN InvalidDateRange
                     ELSE Ok
        IN /\ first # Ok => out.err # Ok
           /\ out.err \in InputErrors => out.err = first
           /\ accounts[PDA(lease_id)] = NoAccount => out.err = first

C13_InitializeStep ==
    \A a \in Addresses :
        Runs("initialize_lease", a) =>
            /\ result'.err \in InputErrors
                => (accounts[a] = NoAccount /\ accounts'[a] = NoAccount)
            /\ result'.err = Ok
                => /\ accounts[a] = NoAccount
                   /\ accounts'[a] # NoAccount
                   /\ PDA(accounts'[a].lease_id) = a
                   /\ accounts'[a].status = Pending
                   /\ ~accounts'[a].manager_signed
                   /\ ~accounts'[a].tenant_signed
                   /\ accounts'[a].manager_signature = ZeroHash
                   /\ accounts'[a].tenant_signature = ZeroHash
                   /\ accounts'[a].activated_at = 0
                   /\ accounts'[a].created_at = clock
                   /\ accounts'[a].manager_wallet = result'.signer
                   /\ Len(accounts'[a].lease_id) <= 64
                   /\ accounts'[a].monthly_rent > 0
                   /\ accounts'[a].end_date > accounts'[a].start_date

C13_InitializeValidation ==
    []C13_FirstFailureWins /\ [][C13_InitializeStep]_vars

C13_Witness ==
    /\ Ran("initialize_lease", PDA(LeaseId65))
    /\ result.err = LeaseIdTooLong
    /\ accounts[PDA(LeaseId65)] = NoAccount
    /\ Exists(PDA(LeaseId64))
    /\ accounts[PDA(LeaseId64)].status = Pending
    /\ accounts[PDA(LeaseId64)].created_at = clock
    /\ clock > 0

\* C14: an initialize_lease for a lease_id whose record exists fails,
\* whoever calls it and whatever the other arguments are, and leaves the
\* record, in whatever status, unchanged.
C14_ExistingRefused ==
    \A manager \in Identities, lease_id \in LeaseIds, lease_hash \in LeaseHashes,
       tenant_wallet \in TenantWallets, monthly_rent \in Rents,
       security_deposit \in Deposits, start_date \in StartDates, end_date \in EndDates :
        LET out == InitializeOutcome(manager, lease_id, lease_hash, tenant_wallet,
                        monthly_rent, security_deposit, start_date, end_date)
        IN Exists(PDA(lease_id)) => out.err # Ok

C14_ReinitializeStep ==
    \A a \in Created :
        Runs("initialize_lease", a)
            => (result'.err # Ok /\ accounts' = accounts)

C14_OneRecordPerLeaseId ==
    []C14_ExistingRefused /\ [][C14_ReinitializeStep]_vars

C14_Witness ==
    \E a \in Created :
        /\ Ran("initialize_lease", a)
        /\ result.err = AccountAlreadyInUse
        /\ ~IsParty(accounts[a], result.signer)
        /\ accounts[a].status = Completed

\* C15: verify_lease on any existing record, in any status, never fails,
\* changes no field, and returns true exactly when manager_signed and
\* tenant_signed are true and the status is Active; so it returns false
\* right after initialize_lease, after a single signature, and on a
\* Terminated or Completed record.
C15_VerifyStep ==
    \A a \in Created :
        Runs("verify_lease", a) =>
            /\ result'.err = Ok
            /\ accounts' = accounts
            /\ result'.ret \in {<<TRUE>>, <<FALSE>>}
            /\ result'.ret = <<TRUE>> <=>
                    (/\ accounts[a].manager_signed
                     /\ accounts[a].tenant_signed
                     /\ accounts[a].status = Active)
            /\ (Ran("initialize_lease", a) /\ result.err = Ok)
                    => result'.ret = <<FALSE>>
            /\ accounts[a].manager_signed # accounts[a].tenant_signed
                    => result'.ret = <<FALSE>>
            /\ accounts[a].status \in {Pending, Terminated, Completed}
                    => result'.ret = <<FALSE>>

C15_VerifyResult == [][C15_VerifyStep]_vars

C15_Witness ==
    \E a \in Created :
        /\ Ran("verify_lease", a)
        /\ result.ret = <<FALSE>>
        /\ accounts[a].manager_signed /\ accounts[a].tenant_signed
        /\ accounts[a].status = Terminated

\* C16: the signed flags and the signatures are write-once: a flag that is
\* true stays true, and the signature of a party that has signed never
\* changes, so a second Sign by the same party stores nothing.
C16_WriteOnceStep ==
    \A a \in Created :
        /\ accounts[a].manager_signed
            => /\ accounts'[a].manager_signed
               /\ accounts'[a].manager_signature = accounts[a].manager_signature
        /\ accounts[a].tenant_signed
            => /\ accounts'[a].tenant_signed
               /\ accounts'[a].tenant_signature = accounts[a].tenant_signature
        /\ ~accounts[a].manager_signed
            => \/ accounts'[a].manager_signature = accounts[a].manager_signature
               \/ /\ Runs("sign_lease", a) /\ result'.err = Ok
                  /\ accounts'[a].manager_signed
                  /\ accounts'[a].manager_signature = result'.arg.signature_hash
        /\ ~accounts[a].tenant_signed
            => \/ accounts'[a].tenant_signature = accounts[a].tenant_signature
               \/ /\ Runs("sign_lease", a) /\ result'.err = Ok
                  /\ accounts'[a].tenant_signed
                  /\ accounts'[a].tenant_signature = result'.arg.signature_hash

C16_WriteOnce == [][C16_WriteOnceStep]_vars

C16_Witness ==
    \E a \in Created :
        /\ Ran("sign_lease", a) /\ result.err = AlreadySigned
        /\ accounts[a].tenant_signed
        /\ ~accounts[a].manager_signed
        /\ result.signer = accounts[a].tenant_wallet
        /\ result.arg.signature_hash # accounts[a].tenant_signature

\* C17: lease_id, lease_hash, manager_wallet, tenant_wallet, monthly_rent,
\* security_deposit, start_date, end_date, created_at and bump of a record
\* are never changed by any transaction after the one that created it.
CreationFields(lease) ==
    <<lease.lease_id, lease.lease_hash, lease.manager_wallet,
      lease.tenant_wallet, lease.monthly_rent, lease.security_deposit,
      lease.start_date, lease.end_date, lease.created_at, lease.bump>>

C17_CreationFieldsStep ==
    \A a \in Created :
        /\ accounts'[a] # NoAccount
        /\ CreationFields(accounts'[a]) = CreationFields(accounts[a])

C17_CreationFieldsImmutable == [][C17_CreationFieldsStep]_vars

C17_Witness ==
    \E a \in Created :
        /\ accounts[a].status = Completed
        /\ accounts[a].created_at < accounts[a].activated_at
        /\ accounts[a].activated_at < clock
        /\ Ran("initialize_lease", a) /\ result.err # Ok

\* C18: update_lease_status by an identity that is neither the manager nor
\* the tenant fails with UnauthorizedSigner in every status, for every
\* requested status and at every time, and leaves the record unchanged.
C18_OutsiderStep ==
    \A a \in Created :
        (Runs("update_lease_status", a) /\ ~IsParty(accounts[a], result'.signer))
        => (result'.err = UnauthorizedSigner /\ accounts' = accounts)

C18_AuthorizationFirst == [][C18_OutsiderStep]_vars

C18_Witness ==
    \E a \in Created :
        /\ Ran("update_lease_status", a)
        /\ ~IsParty(accounts[a], result.signer)
        /\ result.err = UnauthorizedSigner
        /\ accounts[a].status = Terminated
        /\ result.arg.new_status = Completed

\* C19: with a clock that never goes back, a Completed record has
\* end_date <= the current time, a record that is not Pending has
\* activated_at >= created_at, and its activated_at never changes again.
C19_Timestamps ==
    \A a \in Created :
        /\ accounts[a].status = Completed => accounts[a].end_date <= clock
        /\ accounts[a].status # Pending
            => accounts[a].activated_at >= accounts[a].created_at
        /\ accounts[a].created_at <= clock

C19_ActivatedOnceStep ==
    /\ clock' >= clock
    /\ \A a \in Created :
        /\ accounts[a].status # Pending
            => accounts'[a].activated_at = accounts[a].activated_at
        /\ accounts'[a].activated_at # accounts[a].activated_at
            => (Runs("sign_lease", a) /\ accounts'[a].activated_at = clock)

C19_ClockOrder == []C19_Timestamps /\ [][C19_ActivatedOnceStep]_vars

C19_Witness ==
    \E a \in Created :
        /\ accounts[a].status = Completed
        /\ accounts[a].end_date < clock
        /\ accounts[a].activated_at > accounts[a].created_at
        /\ Ran("sign_lease", a) /\ result.err = LeaseNotPending

\* C20: a Pending record whose manager and tenant are distinct eventually
\* becomes Active when the manager's and the tenant's sign_lease are each
\* weakly fair, whatever other transactions are interleaved.
C20_EventuallyActive ==
    \A a \in Addresses :
        (/\ Exists(a)
         /\ accounts[a].status = Pending
         /\ accounts[a].manager_wallet # accounts[a].tenant_wallet)
        ~> (Exists(a) /\ accounts[a].status = Active)

C20_Witness ==
    \E a \in Created :
        /\ accounts[a].manager_wallet # accounts[a].tenant_wallet
        /\ accounts[a].status = Active
        /\ Ran("sign_lease", a) /\ result.err = Ok
        /\ result.signer = accounts[a].manager_wallet
        /\ accounts[a].activated_at > accounts[a].created_at

====
